---- MODULE Spec2Model ----
(***************************************************************************)
(* Coral Interface Agent: the agent runner of main.py, the bounded-retry   *)
(* runner of 0-langchain-interface.py, and the two helpers of              *)
(* utils/coral_config.py (parse_mentions_response, mcp_resources_details). *)
(*                                                                         *)
(* Four specifications, one per program:                                   *)
(*   Spec           main() of main.py                                      *)
(*   SpecInterface  module body and main() of 0-langchain-interface.py     *)
(*   SpecParse      parse_mentions_response                                *)
(*   SpecResources  mcp_resources_details                                  *)
(* Each leaves the variables of the other programs at their idle values.   *)
(***************************************************************************)
EXTENDS Integers, Sequences, FiniteSets, TLC

VARIABLES
    env,              \* the process environment os.getenv reads
    pc,               \* main.py: position of main()
    config,           \* main.py: the dict load_config returned
    coral_tools,      \* main.py: names of the tools client.get_tools returned
    agent_tools,      \* main.py: agent_tools handed to create_agent
    agent_executor,   \* main.py: the AgentExecutor create_agent built
    iteration_count,  \* main.py: the loop counter
    last_outcome,     \* main.py: how the latest ainvoke ended
    failures,         \* main.py: number of ainvoke calls that raised Exception
    sleeps,           \* main.py: the latest asyncio.sleep argument on each path
    connected,        \* main.py: client.get_tools has been called
    error,            \* main.py: the exception main() raised
    ipc,              \* interface: position of the script
    MCP_SERVER_URL,   \* interface: the module-level URL
    attempt,          \* interface: the for-loop variable
    history,          \* interface: how each attempt so far ended
    slept,            \* interface: the asyncio.sleep arguments so far
    iconnected,       \* interface: client.get_tools has been called
    ierror,           \* interface: the exception main() raised
    response,         \* parser: the argument of parse_mentions_response
    parsed,           \* parser: what the call did
    resources,        \* resources: the argument of mcp_resources_details
    results           \* resources: what the call did

mainVars == <<pc, config, coral_tools, agent_tools, agent_executor,
              iteration_count, last_outcome, failures, sleeps, connected, error>>
ifaceVars == <<ipc, MCP_SERVER_URL, attempt, history, slept, iconnected, ierror>>
parseVars == <<response, parsed>>
resVars == <<resources, results>>
vars == <<env, mainVars, ifaceVars, parseVars, resVars>>

(***************************************************************************)
(* Python values                                                           *)
(***************************************************************************)
\* Python's None, as os.getenv and Element.get return it for a missing key.
None == "<None>"

\* bool(v) of a str-or-None value: None and "" are falsy.
Truthy(v) == v # None /\ v # ""

\* str(v) as an f-string or urlencode renders it.
PyStr(v) == IF v = None THEN "None" ELSE v

\* The values an environment variable is drawn from: unset, empty, set.
EnvValues == {None, "", "set"}

\* Bound on the number of loop iterations of main.py that are explored.
MaxIter == 4

\* Bound on the number of elements of an XML document.
MaxNodes == 3

\* Bound on the length of the resources sequence.
MaxResources == 3

(***************************************************************************)
(* main.py                                                                 *)
(***************************************************************************)
\* asyncio.sleep(1) after an invocation that completed.
SuccessSleep == 1

\* asyncio.sleep(5) after an invocation that raised.
ErrorSleep == 5

\* What float() accepts among the values MODEL_TEMPERATURE is drawn from.
FloatOk(v) == v \in {"0.3", "1024"}

\* What int() accepts among the values MODEL_TOKEN is drawn from.
IntOk(v) == v = "1024"

required_fields == <<"coral_sse_url", "agent_id", "model_name", "model_provider", "api_key">>

NoError == [type |-> "none", text |-> "", names |-> <<>>]

NoConfig == [runtime |-> None, coral_sse_url |-> None, agent_id |-> None,
             model_name |-> None, model_provider |-> None, api_key |-> None,
             model_temperature |-> None, model_token |-> None]

\* The environments main.py is started in. load_dotenv() has no state of its
\* own: env is the environment os.getenv reads once it has run.
MainEnvs ==
    [CORAL_SSE_URL : EnvValues, CORAL_AGENT_ID : EnvValues, MODEL_NAME : EnvValues,
     MODEL_PROVIDER : EnvValues, API_KEY : EnvValues,
     CORAL_ORCHESTRATION_RUNTIME : {None, "docker", "executable"},
     MODEL_TEMPERATURE : {None, "0.3", "abc"},
     MODEL_TOKEN : {None, "1024", "0.3"}]

\* load_config(): the config dict is built first (float() and int() run there),
\* the required fields are checked after it.
load_config(e) ==
    LET cfg == [runtime |-> IF e.CORAL_ORCHESTRATION_RUNTIME = None
                            THEN "devmode" ELSE e.CORAL_ORCHESTRATION_RUNTIME,
                coral_sse_url |-> e.CORAL_SSE_URL,
                agent_id |-> e.CORAL_AGENT_ID,
                model_name |-> e.MODEL_NAME,
                model_provider |-> e.MODEL_PROVIDER,
                api_key |-> e.API_KEY,
                model_temperature |-> IF e.MODEL_TEMPERATURE = None
                                      THEN "0.7" ELSE e.MODEL_TEMPERATURE,
                model_token |-> IF e.MODEL_TOKEN = None
                                THEN "2048" ELSE e.MODEL_TOKEN]
        IsMissing(field) == ~Truthy(cfg[field])
        missing == SelectSeq(required_fields, IsMissing)
    IN  IF e.MODEL_TEMPERATURE # None /\ ~FloatOk(e.MODEL_TEMPERATURE)
        THEN [status |-> "raised", config |-> NoConfig,
              error |-> [type |-> "ValueError", text |-> "could not convert string to float",
                         names |-> <<>>]]
        ELSE IF e.MODEL_TOKEN # None /\ ~IntOk(e.MODEL_TOKEN)
        THEN [status |-> "raised", config |-> NoConfig,
              error |-> [type |-> "ValueError", text |-> "invalid literal for int()",
                         names |-> <<>>]]
        ELSE IF missing # <<>>
        THEN [status |-> "raised", config |-> NoConfig,
              error |-> [type |-> "ValueError",
                         text |-> "Missing required environment variables",
                         names |-> missing]]
        ELSE [status |-> "ok", config |-> cfg, error |-> NoError]

\* The names a Coral Server may offer, in the order it lists them.
ToolUniverse == <<"list_agents", "request-question", "answer-question",
                  "request_question", "answer_question">>

Range(s) == {s[i] : i \in DOMAIN s}

\* The tool lists client.get_tools(server_name="coral") may return.
ToolLists ==
    {LET Offered(name) == name \in S IN SelectSeq(ToolUniverse, Offered) :
        S \in SUBSET Range(ToolUniverse)}

required_tools == <<"request-question", "answer-question">>

\* The runtime branch of main(): the required tools are looked up by name in
\* coral_tools; the first one not found raises.
select_agent_tools(tools, runtime) ==
    LET NotFound(tool_name) == tool_name \notin Range(tools)
        absent == SelectSeq(required_tools, NotFound)
    IN  IF runtime \in {"docker", "executable"}
        THEN IF absent # <<>>
             THEN [status |-> "raised", agent_tools |-> <<>>,
                   error |-> [type |-> "ValueError",
                              text |-> "Required tool not found in coral_tools",
                              names |-> <<Head(absent)>>]]
             ELSE [status |-> "ok", agent_tools |-> required_tools, error |-> NoError]
        ELSE [status |-> "ok", agent_tools |-> <<"ask_human">>, error |-> NoError]

NoExecutor == [user_request_tool |-> None, user_answer_tool |-> None, tools |-> <<>>]

\* create_agent(): the tool names written into the system prompt and the
\* combined_tools the AgentExecutor is bound to.
create_agent(tools, atools, runtime) ==
    LET Named(name) == name \in Range(atools)
        agent_tools_for_description == SelectSeq(tools, Named)
    IN  IF runtime \in {"docker", "executable"}
        THEN [user_request_tool |-> "request_question",
              user_answer_tool |-> "answer_question",
              tools |-> tools \o agent_tools_for_description]
        ELSE [user_request_tool |-> "ask_human",
              user_answer_tool |-> "ask_human",
              tools |-> tools \o atools]

\* The try body of the loop after ainvoke returned: asyncio.sleep(1).
on_invoke_success == [pc |-> "sleeping", sleep |-> SuccessSleep]

on_invoke_exception_fatal == [pc |-> "raised", sleep |-> 0]

on_invoke_exception_short == [pc |-> "sleeping", sleep |-> SuccessSleep]

\* The inner except Exception clause: log, asyncio.sleep(5), next iteration.
on_invoke_exception == [pc |-> "sleeping", sleep |-> ErrorSleep]

MainIdle ==
    /\ pc = "idle"
    /\ config = NoConfig
    /\ coral_tools = <<>>
    /\ agent_tools = <<>>
    /\ agent_executor = NoExecutor
    /\ iteration_count = 0
    /\ last_outcome = "none"
    /\ failures = 0
    /\ sleeps = [success |-> 0, error |-> 0]
    /\ connected = FALSE
    /\ error = NoError

MainInit ==
    /\ env \in MainEnvs
    /\ pc = "start"
    /\ config = NoConfig
    /\ coral_tools = <<>>
    /\ agent_tools = <<>>
    /\ agent_executor = NoExecutor
    /\ iteration_count = 0
    /\ last_outcome = "none"
    /\ failures = 0
    /\ sleeps = [success |-> 0, error |-> 0]
    /\ connected = FALSE
    /\ error = NoError

\* main(): config = load_config(); an exception reaches the outer except, which re-raises.
LoadConfig ==
    /\ pc = "start"
    /\ LET r == load_config(env)
       IN  /\ config' = r.config
           /\ error' = r.error
           /\ pc' = IF r.status = "ok" THEN "connect" ELSE "raised"
    /\ UNCHANGED <<env, coral_tools, agent_tools, agent_executor, iteration_count,
                   last_outcome, failures, sleeps, connected, ifaceVars, parseVars, resVars>>

\* MultiServerMCPClient(...) and await client.get_tools(server_name="coral").
GetTools ==
    /\ pc = "connect"
    /\ connected' = TRUE
    /\ \/ \E tools \in ToolLists :
            /\ coral_tools' = tools
            /\ pc' = "select"
            /\ error' = error
       \/ /\ coral_tools' = coral_tools
          /\ pc' = "raised"
          /\ error' = [type |-> "ConnectionError", text |-> "get_tools failed", names |-> <<>>]
    /\ UNCHANGED <<env, config, agent_tools, agent_executor, iteration_count,
                   last_outcome, failures, sleeps, ifaceVars, parseVars, resVars>>

\* The check of the required tools and the choice of agent_tools.
SelectAgentTools ==
    /\ pc = "select"
    /\ LET r == select_agent_tools(coral_tools, config.runtime)
       IN  /\ agent_tools' = r.agent_tools
           /\ error' = r.error
           /\ pc' = IF r.status = "ok" THEN "create" ELSE "raised"
    /\ UNCHANGED <<env, config, coral_tools, agent_executor, iteration_count,
                   last_outcome, failures, sleeps, connected, ifaceVars, parseVars, resVars>>

\* agent_executor = await create_agent(...); init_chat_model may raise.
CreateAgent ==
    /\ pc = "create"
    /\ \/ /\ agent_executor' = create_agent(coral_tools, agent_tools, config.runtime)
          /\ pc' = "loop"
          /\ error' = error
       \/ /\ agent_executor' = agent_executor
          /\ pc' = "raised"
          /\ error' = [type |-> "Exception", text |-> "init_chat_model failed", names |-> <<>>]
    /\ UNCHANGED <<env, config, coral_tools, agent_tools, iteration_count,
                   last_outcome, failures, sleeps, connected, ifaceVars, parseVars, resVars>>

\* while True: iteration_count += 1; the call of agent_executor.ainvoke.
StartInvocation ==
    /\ pc = "loop"
    /\ iteration_count < MaxIter
    /\ iteration_count' = iteration_count + 1
    /\ pc' = "invoking"
    /\ UNCHANGED <<env, config, coral_tools, agent_tools, agent_executor, last_outcome,
                   failures, sleeps, connected, error, ifaceVars, parseVars, resVars>>

\* ainvoke returned: await asyncio.sleep(1).
InvokeReturns ==
    /\ pc = "invoking"
    /\ last_outcome' = "ok"
    /\ pc' = on_invoke_success.pc
    /\ sleeps' = [sleeps EXCEPT !.success = on_invoke_success.sleep]
    /\ UNCHANGED <<env, config, coral_tools, agent_tools, agent_executor, iteration_count,
                   failures, connected, error, ifaceVars, parseVars, resVars>>

\* ainvoke raised an Exception: the inner except clause.
InvokeRaises ==
    /\ pc = "invoking"
    /\ last_outcome' = "exception"
    /\ failures' = failures + 1
    /\ pc' = on_invoke_exception.pc
    /\ sleeps' = [sleeps EXCEPT !.error = on_invoke_exception.sleep]
    /\ error' = IF on_invoke_exception.pc = "raised"
                THEN [type |-> "Exception", text |-> "ainvoke failed", names |-> <<>>]
                ELSE error
    /\ UNCHANGED <<env, config, coral_tools, agent_tools, agent_executor, iteration_count,
                   connected, ifaceVars, parseVars, resVars>>

\* ainvoke raised a BaseException that is no Exception (CancelledError,
\* KeyboardInterrupt): neither except clause catches it.
InvokeInterrupted ==
    /\ pc = "invoking"
    /\ last_outcome' = "interrupted"
    /\ pc' = "raised"
    /\ error' = [type |-> "BaseException", text |-> "interrupted", names |-> <<>>]
    /\ UNCHANGED <<env, config, coral_tools, agent_tools, agent_executor, iteration_count,
                   failures, sleeps, connected, ifaceVars, parseVars, resVars>>

\* asyncio.sleep returned: back to the top of the while loop.
SleepDone ==
    /\ pc = "sleeping"
    /\ pc' = "loop"
    /\ UNCHANGED <<env, config, coral_tools, agent_tools, agent_executor, iteration_count,
                   last_outcome, failures, sleeps, connected, error,
                   ifaceVars, parseVars, resVars>>

MainNext ==
    \/ LoadConfig
    \/ GetTools
    \/ SelectAgentTools
    \/ CreateAgent
    \/ StartInvocation
    \/ InvokeReturns
    \/ InvokeRaises
    \/ InvokeInterrupted
    \/ SleepDone

(***************************************************************************)
(* 0-langchain-interface.py                                                *)
(***************************************************************************)
max_retries == 5

retry_delay == 5

\* The environments the script is started in (after the module-level load_dotenv()).
InterfaceEnvs ==
    [CORAL_SSE_URL : EnvValues, CORAL_AGENT_ID : EnvValues, OPENAI_API_KEY : EnvValues]

NoUrl == [base_url |-> "", agentId |-> ""]

\* The module body: base_url and agentID are read with os.getenv and rendered
\* into MCP_SERVER_URL by urlencode and an f-string; nothing is validated.
server_url(e) == [base_url |-> PyStr(e.CORAL_SSE_URL), agentId |-> PyStr(e.CORAL_AGENT_ID)]

\* The stages of the try body of one attempt.
Stages == {"connect", "create", "invoke"}

\* The exception classes the two except clauses tell apart.
ExceptionClasses == {"ClosedResourceError", "Exception"}

\* except ClosedResourceError: sleep and continue, or raise on the last attempt.
on_closed_resource_error(a) ==
    IF a < max_retries - 1
    THEN [pc |-> "sleeping", sleep |-> retry_delay]
    ELSE [pc |-> "raised", sleep |-> 0]

\* except Exception: sleep and continue, or raise on the last attempt.
on_exception(a) ==
    IF a < max_retries - 1
    THEN [pc |-> "sleeping", sleep |-> retry_delay]
    ELSE [pc |-> "raised", sleep |-> 0]

on_error(exc, a) ==
    IF exc = "ClosedResourceError" THEN on_closed_resource_error(a) ELSE on_exception(a)

\* for attempt in range(max_retries): the step to the next attempt when the
\* try body ended without an exception, or the end of the loop and of main().
next_attempt(a) ==
    IF a + 1 < max_retries
    THEN [pc |-> "connect", attempt |-> a + 1]
    ELSE [pc |-> "returned", attempt |-> a]

InterfaceIdle ==
    /\ ipc = "idle"
    /\ MCP_SERVER_URL = NoUrl
    /\ attempt = 0
    /\ history = <<>>
    /\ slept = <<>>
    /\ iconnected = FALSE
    /\ ierror = NoError

InterfaceInit ==
    /\ env \in InterfaceEnvs
    /\ ipc = "import"
    /\ MCP_SERVER_URL = NoUrl
    /\ attempt = 0
    /\ history = <<>>
    /\ slept = <<>>
    /\ iconnected = FALSE
    /\ ierror = NoError

\* The module body, then asyncio.run(main()) up to the first attempt.
ImportModule ==
    /\ ipc = "import"
    /\ MCP_SERVER_URL' = server_url(env)
    /\ attempt' = 0
    /\ ipc' = "connect"
    /\ UNCHANGED <<env, history, slept, iconnected, ierror, mainVars, parseVars, resVars>>

\* MultiServerMCPClient(...), tools = await client.get_tools(), tools.append(...).
InterfaceGetTools ==
    /\ ipc = "connect"
    /\ iconnected' = TRUE
    /\ ipc' = "create"
    /\ UNCHANGED <<env, MCP_SERVER_URL, attempt, history, slept, ierror,
                   mainVars, parseVars, resVars>>

\* agent_executor = await create_interface_agent(client, tools).
InterfaceCreateAgent ==
    /\ ipc = "create"
    /\ ipc' = "invoke"
    /\ UNCHANGED <<env, MCP_SERVER_URL, attempt, history, slept, iconnected, ierror,
                   mainVars, parseVars, resVars>>

\* await agent_executor.ainvoke({}) returned: the try body is over, the for
\* loop goes on.
InterfaceInvokeReturns ==
    /\ ipc = "invoke"
    /\ history' = Append(history, "completed")
    /\ ipc' = next_attempt(attempt).pc
    /\ attempt' = next_attempt(attempt).attempt
    /\ UNCHANGED <<env, MCP_SERVER_URL, slept, iconnected, ierror,
                   mainVars, parseVars, resVars>>

\* A statement of the try body raised an Exception: one of the except clauses.
InterfaceAttemptRaises ==
    /\ ipc \in Stages
    /\ \E exc \in ExceptionClasses :
        LET h == on_error(exc, attempt)
        IN  /\ history' = Append(history, ipc)
            /\ iconnected' = (iconnected \/ ipc = "connect")
            /\ ipc' = h.pc
            /\ slept' = IF h.pc = "sleeping" THEN Append(slept, h.sleep) ELSE slept
            /\ ierror' = IF h.pc = "raised"
                         THEN [type |-> exc, text |-> ipc, names |-> <<>>]
                         ELSE ierror
    /\ UNCHANGED <<env, MCP_SERVER_URL, attempt, mainVars, parseVars, resVars>>

\* A BaseException that is no Exception: no except clause catches it.
InterfaceInterrupted ==
    /\ ipc \in Stages
    /\ history' = Append(history, "interrupted")
    /\ ipc' = "raised"
    /\ ierror' = [type |-> "BaseException", text |-> ipc, names |-> <<>>]
    /\ UNCHANGED <<env, MCP_SERVER_URL, attempt, slept, iconnected,
                   mainVars, parseVars, resVars>>

\* asyncio.sleep(retry_delay) returned: continue with the next attempt.
InterfaceSleepDone ==
    /\ ipc = "sleeping"
    /\ attempt' = attempt + 1
    /\ ipc' = "connect"
    /\ UNCHANGED <<env, MCP_SERVER_URL, history, slept, iconnected, ierror,
                   mainVars, parseVars, resVars>>

InterfaceNext ==
    \/ ImportModule
    \/ InterfaceGetTools
    \/ InterfaceCreateAgent
    \/ InterfaceInvokeReturns
    \/ InterfaceAttemptRaises
    \/ InterfaceInterrupted
    \/ InterfaceSleepDone

(***************************************************************************)
(* utils/coral_config.py: parse_mentions_response                          *)
(***************************************************************************)
\* The elements of a document. Only ResolvedMessage elements have their
\* attributes read; msg.get() yields None for an attribute that is not there.
Elements ==
    [tag : {"ResolvedMessage"}, threadId : {None, "t1", "t2"},
     senderId : {None, "a1"}, content : {None, "", "hi"}]
    \cup {[tag |-> "Other", threadId |-> None, senderId |-> None, content |-> None]}

\* A well-formed document: its elements in document order, the root first.
Documents == UNION {[1..n -> Elements] : n \in 1..MaxNodes}

\* The arguments of parse_mentions_response: None, a value that is no str, a
\* value whose truth test raises, the empty string, a string ET.fromstring
\* rejects, and the well-formed documents.
Responses ==
    {[kind |-> k, doc |-> <<>>] :
        k \in {"None", "non-string", "bool-raises", "empty", "malformed"}}
    \cup {[kind |-> "xml", doc |-> d] : d \in Documents}

Returned(v) == [status |-> "returned", value |-> v]

Raised(v) == [status |-> "raised", value |-> v]

Pending == [status |-> "pending", value |-> <<>>]

\* not response or not isinstance(response, str)
is_empty_or_non_string(r) == r.kind \in {"None", "non-string", "empty"}

\* ET.fromstring(response): the tree, or ParseError.
fromstring(r) ==
    IF r.kind = "malformed"
    THEN [exc |-> "ParseError", root |-> <<>>]
    ELSE [exc |-> "none", root |-> r.doc]

\* root.findall(".//ResolvedMessage"): the descendants of the root with that
\* tag, in document order; the root itself is not among them.
findall(root) ==
    LET IsResolved(el) == el.tag = "ResolvedMessage" IN SelectSeq(Tail(root), IsResolved)

\* The dict built from one element.
message_of(msg) ==
    [threadId |-> msg.threadId, senderId |-> msg.senderId, content |-> msg.content]

\* all(message.values())
all_values(message) ==
    Truthy(message.threadId) /\ Truthy(message.senderId) /\ Truthy(message.content)

RECURSIVE collect_messages(_, _)
\* The for loop over the found elements.
collect_messages(found, messages) ==
    IF found = <<>>
    THEN messages
    ELSE LET message == message_of(Head(found))
         IN  collect_messages(Tail(found),
                 IF all_values(message) THEN Append(messages, message) ELSE messages)

on_parse_error_propagates == Raised(<<>>)

\* except ET.ParseError: return []
on_parse_error == Returned(<<>>)

\* except Exception: log and return []
on_unexpected_error == Returned(<<>>)

parse_mentions_response(r) ==
    IF r.kind = "bool-raises"
    THEN on_unexpected_error
    ELSE IF is_empty_or_non_string(r)
    THEN Returned(<<>>)
    ELSE LET tree == fromstring(r)
         IN  IF tree.exc = "ParseError"
             THEN on_parse_error
             ELSE Returned(collect_messages(findall(tree.root), <<>>))

ParseIdle ==
    /\ response = [kind |-> "None", doc |-> <<>>]
    /\ parsed = [status |-> "idle", value |-> <<>>]

ParseInit ==
    /\ response \in Responses
    /\ parsed = Pending

\* One call parse_mentions_response(response).
Parse ==
    /\ parsed.status = "pending"
    /\ parsed' = parse_mentions_response(response)
    /\ UNCHANGED <<env, response, mainVars, ifaceVars, resVars>>

ParseNext == Parse

(***************************************************************************)
(* utils/coral_config.py: mcp_resources_details                            *)
(***************************************************************************)
\* The opaque resource items: one with a data attribute, one without, and one
\* whose data attribute raises an Exception with the given text when read.
ResourceItems ==
    [kind : {"data"}, value : {"d1", "d2"}]
    \cup {[kind |-> "no-data", value |-> None]}
    \cup [kind : {"raises"}, value : {"e1", "e2"}]

ResourceLists == UNION {[1..n -> ResourceItems] : n \in 0..MaxResources}

\* getattr(resource, "data", None): the default covers a missing attribute only.
getattr_data(resource) ==
    IF resource.kind = "raises"
    THEN [raised |-> TRUE, data |-> None, text |-> resource.value]
    ELSE [raised |-> FALSE, data |-> resource.value, text |-> ""]

on_extract_error_aborts(i, text) ==
    [status |-> "raised", record |-> [resource |-> i, error |-> text, status |-> "failed"]]

\* except Exception as e: the failed record is appended, the loop goes on.
on_extract_error(i, text) ==
    [status |-> "ok", record |-> [resource |-> i, error |-> text, status |-> "failed"]]

\* The body of the for loop for item i.
resource_step(i, resource) ==
    LET got == getattr_data(resource)
    IN  IF got.raised
        THEN on_extract_error(i, got.text)
        ELSE [status |-> "ok",
              record |-> [resource |-> i, details |-> [data |-> got.data],
                          status |-> "success"]]

RECURSIVE resources_loop(_, _, _)
\* for i, resource in enumerate(resources, 1)
resources_loop(rs, i, acc) ==
    IF i > Len(rs)
    THEN Returned(acc)
    ELSE LET step == resource_step(i, rs[i])
         IN  IF step.status = "raised"
             THEN Raised(acc)
             ELSE resources_loop(rs, i + 1, Append(acc, step.record))

mcp_resources_details(rs) == resources_loop(rs, 1, <<>>)

ResourcesIdle ==
    /\ resources = <<>>
    /\ results = [status |-> "idle", value |-> <<>>]

ResourcesInit ==
    /\ resources \in ResourceLists
    /\ results = Pending

\* One call mcp_resources_details(resources).
MapResources ==
    /\ results.status = "pending"
    /\ results' = mcp_resources_details(resources)
    /\ UNCHANGED <<env, resources, mainVars, ifaceVars, parseVars>>

ResourcesNext == MapResources

(***************************************************************************)
(* Specifications                                                          *)
(***************************************************************************)
NoEnv == <<>>

Init == MainInit /\ InterfaceIdle /\ ParseIdle /\ ResourcesIdle

Next == MainNext

Spec == Init /\ [][Next]_vars

InitInterface == InterfaceInit /\ MainIdle /\ ParseIdle /\ ResourcesIdle

SpecInterface == InitInterface /\ [][InterfaceNext]_vars

InitParse == ParseInit /\ env = NoEnv /\ MainIdle /\ InterfaceIdle /\ ResourcesIdle

SpecParse == InitParse /\ [][ParseNext]_vars

InitResources == ResourcesInit /\ env = NoEnv /\ MainIdle /\ InterfaceIdle /\ ParseIdle

SpecResources == InitResources /\ [][ResourcesNext]_vars

(***************************************************************************)
(* Properties of main.py (specification Spec)*)
(***************************************************************************)
InLoop == pc \in {"loop", "invoking", "sleeping"}

\* C1: in the runner loop of main.py an Exception raised by ainvoke is never
\* fatal: main neither returns nor raises because of it, the backoff sleep
\* ends, and the loop then starts a further invocation, however many
\* invocations have failed before.
C1_InvocationErrorNotFatal ==
    /\ last_outcome = "exception" => (InLoop /\ error = NoError)
    /\ pc = "sleeping" => ENABLED SleepDone
    /\ (pc = "loop" /\ iteration_count < MaxIter) => ENABLED StartInvocation

\* Two invocations have raised and a further one is in flight.
C1_Witness == failures >= 2 /\ last_outcome = "exception" /\ pc = "invoking"

\* C8 as stated: the sleep after an invocation that raised is strictly
\* shorter than the sleep after an invocation that completed.
C8_BackoffShorterThanSuccessSleep ==
    (sleeps.error > 0 /\ sleeps.success > 0) => sleeps.error < sleeps.success

\* C8 as amended: the sleep after an invocation that raised is strictly
\* longer than the sleep after an invocation that completed.
C8_BackoffLongerThanSuccessSleep ==
    (sleeps.error > 0 /\ sleeps.success > 0) => sleeps.error > sleeps.success

\* Both paths of the loop have slept.
C8_Witness == sleeps.error > 0 /\ sleeps.success > 0 /\ InLoop

\* C10: under runtime docker or executable, once create_agent has built the
\* executor, the two tool names written into the system prompt are names of
\* tools bound to the AgentExecutor.
C10_PromptToolsAreBound ==
    (InLoop /\ config.runtime \in {"docker", "executable"}) =>
        /\ agent_executor.user_request_tool \in Range(agent_executor.tools)
        /\ agent_executor.user_answer_tool \in Range(agent_executor.tools)

(***************************************************************************)
(* Properties of the runner scripts (specification SpecInterface)*)
(***************************************************************************)
\* The required values main.py does not find in env.
MainMissing ==
    {name \in {"CORAL_SSE_URL", "CORAL_AGENT_ID", "MODEL_NAME", "MODEL_PROVIDER", "API_KEY"} :
        ~Truthy(env[name])}

\* The required values 0-langchain-interface.py does not find in env.
InterfaceMissing ==
    {name \in {"CORAL_SSE_URL", "CORAL_AGENT_ID", "OPENAI_API_KEY"} : ~Truthy(env[name])}

\* C7: in every runner script, when a required environment value is absent or
\* empty, startup raises an error naming the missing variables, before any
\* connection to the Coral Server is attempted and before an agent is created
\* or invoked.
C7_MissingConfigFailsFast ==
    /\ (pc \notin {"idle", "start"} /\ MainMissing # {}) =>
          /\ pc = "raised"
          /\ Len(error.names) = Cardinality(MainMissing)
          /\ ~connected
          /\ agent_executor = NoExecutor
    /\ (ipc \notin {"idle", "import", "connect"} /\ InterfaceMissing # {}) =>
          /\ ipc = "raised"
          /\ Len(ierror.names) = Cardinality(InterfaceMissing)
          /\ ~iconnected
          /\ history = <<>>

\* C3: no runner script ever reaches the state in which main has returned
\* without raising.
C3_NeverReturnsNormally == pc # "returned" /\ ipc # "returned"

\* The attempts of the history that failed while the connection was being
\* established (MultiServerMCPClient, get_tools).
ConnectionFailures == {i \in DOMAIN history : history[i] = "connect"}

\* The attempts of the history in which the connection was established.
ConnectionSuccesses == {i \in DOMAIN history : history[i] \in {"create", "invoke", "completed"}}

\* The attempts of the history that ended by an exception of ainvoke.
InvocationFailures == {i \in DOMAIN history : history[i] = "invoke"}

\* main() of the interface script ended by an Exception it let through.
ErrorPropagated == ipc = "raised" /\ ierror.type \in ExceptionClasses

\* C4: the attempt budget covers connection establishment only: main() is
\* ended by a propagated error only when max_retries attempts have failed while
\* establishing the connection; an exception of ainvoke consumes no attempt.
C4_BudgetCoversConnectionOnly ==
    /\ attempt <= Cardinality(DOMAIN history \ InvocationFailures)
    /\ ErrorPropagated => Cardinality(ConnectionFailures) = max_retries

\* C2: if the dependency fails on the first k attempts and succeeds on attempt
\* k+1 (k < max_retries), no error is propagated and a sleep of retry_delay
\* followed each of the k failed attempts; if it fails on every attempt, the
\* error is raised after exactly max_retries attempts, not earlier.
C2_ConnectionRetry ==
    /\ \A k \in 0..(max_retries - 1) :
          (/\ Len(history) > k
           /\ (1..k) \subseteq ConnectionFailures
           /\ (k + 1) \in ConnectionSuccesses) =>
              /\ ~ErrorPropagated
              /\ Len(slept) >= k
              /\ \A i \in 1..k : slept[i] = retry_delay
    /\ (ErrorPropagated /\ DOMAIN history \subseteq ConnectionFailures) =>
          Len(history) = max_retries

(***************************************************************************)
(* Properties of parse_mentions_response (specification SpecParse)*)
(***************************************************************************)
\* The records of the ResolvedMessage elements of a document, wherever they
\* stand, whose three attributes are all present and non-empty.
WellFormedRecords(doc) ==
    LET WellFormed(el) ==
            /\ el.tag = "ResolvedMessage"
            /\ Truthy(el.threadId) /\ Truthy(el.senderId) /\ Truthy(el.content)
        kept == SelectSeq(doc, WellFormed)
    IN  [i \in 1..Len(kept) |->
            [threadId |-> kept[i].threadId, senderId |-> kept[i].senderId,
             content |-> kept[i].content]]

\* C5: for a well-formed document the result is exactly the records of the
\* ResolvedMessage elements, at any position of the document, whose threadId,
\* senderId and content are all present and non-empty, in document order.
C5_ExactlyWellFormedInOrder ==
    (parsed.status # "pending" /\ response.kind = "xml") =>
        parsed = Returned(WellFormedRecords(response.doc))

\* C6: parse_mentions_response never raises, and it returns the empty
\* sequence for the empty string, for None and other non-string values, and
\* for malformed XML.
C6_NeverRaises ==
    /\ parsed.status # "raised"
    /\ (parsed.status = "returned" /\ response.kind # "xml") => parsed.value = <<>>

\* The call was made on a string ET.fromstring rejects.
C6_Witness == parsed.status = "returned" /\ response.kind = "malformed"

====
